---- MODULE Spec2Model ----
(***************************************************************************)
(* The redis broker of aws-broker (services/redis/broker.go) as a state    *)
(* machine: the broker database of RedisInstance rows, the five broker     *)
(* operations CreateInstance, ModifyInstance, LastOperation, BindInstance  *)
(* and DeleteInstance, and the option parsing they share.                  *)
(*                                                                         *)
(* The adapter (createRedis, modifyRedis, checkRedisStatus, bindRedisToApp,*)
(* deleteRedis), the catalog (FetchPlan, CheckVersion), the tag manager    *)
(* and RedisInstance.init / modify / getPassword are called by the broker  *)
(* but are defined elsewhere; they are modelled by their contract: every   *)
(* status or error they can hand back is a nondeterministic input of the   *)
(* handler that calls them.                                                *)
(*                                                                         *)
(* Every handler is one action.  The variable last records what the most   *)
(* recent handler was asked, what it answered and which adapter calls it   *)
(* made; prevBind keeps the outcome of the handler before it when that was *)
(* a successful bind.                                                      *)
(*                                                                         *)
(* The broker has no lock and the HTTP server runs every request in its    *)
(* own goroutine.  A second specification, SpecConc, therefore splits a    *)
(* handler at its database and adapter calls, and the variable inflight    *)
(* holds the locals of each request between two such calls.                *)
(*                                                                         *)
(* A third specification, SpecSweep, is the reconciliation job             *)
(* ReconcileMissingResourcesForAllRDSDatabases, one step per row, over the *)
(* rows of rds.RDSInstance (rdsDB) that the RDS broker has left.           *)
(*                                                                         *)
(* A fourth specification, SpecModify, calls RedisInstance.modify directly *)
(* on an instance, as TestModifyInstance does.                             *)
(***************************************************************************)
EXTENDS Integers, Sequences, FiniteSets, TLC

\* ---------------------------------------------------------------- bounds
\* Number of instance identifiers the platform uses.
NumInstances == 1

IDs == 1..NumInstances

\* Number of requests the platform has in flight at once.
NumRequests == 2

Reqs == 1..NumRequests

\* Number of identifiers the rows of rds.RDSInstance are drawn from.
NumRDSRows == 3

RDSIDs == 1..NumRDSRows

\* ------------------------------------------------------------ environment
\* The plans of the catalog's redis service.  A plan identifier is never the
\* empty string; FetchPlan fails for any identifier the catalog lacks.
PlanIDs == {"plan-1", "plan-2"}
UnknownPlanID == "plan-x"
ApprovedMajorVersions(planID) ==
    IF planID = "plan-1" THEN {"7.0"} ELSE {"7.0", "6.2"}

\* catalog.RedisPlan.Tags, and the tag maps tagManager.GenerateTags can hand
\* back for a create request.  NoTags is the nil map.
NoTags == [k \in {} |-> ""]
PlanTags(planID) ==
    IF planID = "plan-1" THEN [a |-> "1"] ELSE [a |-> "1", c |-> "4"]
GeneratedTags == {[a |-> "2", b |-> "3"], [b |-> "3"]}

\* Engine versions a request can name.
Versions == {"7.0", "6.2"}

\* Passwords RedisInstance.init can generate, and the values the process-wide
\* settings.EncryptionKey can take.
Passwords == {"pw-a", "pw-b"}
Keys == {"key-1", "key-2"}

\* base.InstanceState
InstanceNotCreated == "InstanceNotCreated"
InstanceInProgress == "InstanceInProgress"
InstanceReady == "InstanceReady"
InstanceGone == "InstanceGone"
InstanceNotGone == "InstanceNotGone"
InstanceNotModified == "InstanceNotModified"
InstanceStates ==
    {InstanceNotCreated, InstanceInProgress, InstanceReady,
     InstanceGone, InstanceNotGone, InstanceNotModified}

\* base.Operation
CreateOp == "CreateOp"
ModifyOp == "ModifyOp"
BindOp == "BindOp"
DeleteOp == "DeleteOp"
Operations == {CreateOp, ModifyOp, BindOp, DeleteOp}

\* The statuses each adapter call can hand back.
CreateStatuses == {InstanceInProgress, InstanceReady, InstanceNotCreated}
ModifyStatuses == {InstanceInProgress, InstanceReady, InstanceNotModified}
DeleteStatuses == {InstanceGone, InstanceInProgress, InstanceNotGone}

\* request.RawParameters: no bytes at all, bytes that are not a JSON object of
\* strings, or a JSON object with one key.
EmptyRaw == [kind |-> "empty", key |-> "", value |-> ""]
RawParameters ==
    {EmptyRaw, [kind |-> "malformed", key |-> "", value |-> ""]}
    \cup [kind : {"object"},
          key : {"engineVersion", "engine_version"},
          value : Versions \cup {""}]

\* ------------------------------------------------------------------ state
VARIABLES
    db,         \* brokerDB: identifier -> RedisInstance row, or the zero row
    settings,   \* settings.EncryptionKey
    logins,     \* provider side: instances whose bind side effect was made
    last,       \* the most recent handler: request, response, adapter calls
    prevBind,   \* the handler before it, if it was a successful bind
    inflight,   \* SpecConc: request slot -> the locals of the handler in it
    rdsDB,      \* SpecSweep: the rows of rds.RDSInstance in the broker database
    sweep,      \* SpecSweep: the locals of the reconciliation run
    unit        \* SpecModify: one direct call of RedisInstance.modify

vars == <<db, settings, logins, last, prevBind, inflight, rdsDB, sweep, unit>>

\* RedisInstance{} : the zero value, also the row of an identifier that has
\* no row (a stored row always carries its own Uuid).
NoCipher == [pw |-> "", key |-> ""]
ZeroInstance ==
    [Uuid |-> 0, PlanID |-> "", State |-> InstanceNotCreated,
     EngineVersion |-> "", Password |-> NoCipher, Tags |-> NoTags]

\* RedisOptions{}
ZeroOptions == [EngineVersion |-> ""]

NoCredentials == [host |-> 0, password |-> ""]

\* An error value: its kind, and for the error of Validate the version it
\* names and the versions it lists.  NoError is the nil error.
NoError == [kind |-> "", version |-> "", listed |-> <<>>]

\* "major version must be one of: 7.0, 6.2, 6.0, 5.0.6"
MessageVersions == <<"7.0", "6.2", "6.0", "5.0.6">>

\* What a handler leaves behind when it has not run yet.
NoCall ==
    [op |-> "none", id |-> 0, planID |-> "", raw |-> EmptyRaw,
     resp |-> "none", state |-> "", calls |-> <<>>, status |-> "none",
     before |-> ZeroInstance, credentials |-> NoCredentials,
     effect |-> FALSE, stored |-> TRUE, err |-> NoError, tags |-> NoTags,
     options |-> ZeroOptions]

\* prevBind when the handler before the last one was not a successful bind.
NoBind ==
    [id |-> 0, credentials |-> NoCredentials, before |-> ZeroInstance,
     after |-> ZeroInstance]

\* A request slot no handler is running in.
Idle ==
    [pc |-> "idle", op |-> "none", id |-> 0, planID |-> "",
     instance |-> ZeroInstance, status |-> "none", resp |-> "none",
     called |-> FALSE, during |-> {}]

\* var rdsInstance rds.RDSInstance : the zero value, also the row of an
\* identifier that has no row.
NoRow == [Uuid |-> 0, State |-> InstanceNotCreated]

\* The reconciliation has not run.
NoSweep ==
    [pc |-> "idle", cursor |-> 0, scanned |-> {}, calls |-> <<>>, err |-> FALSE]

\* No direct call of RedisInstance.modify has been made.
NoUnit ==
    [called |-> FALSE, existingInstance |-> ZeroInstance,
     options |-> ZeroOptions, instance |-> ZeroInstance, err |-> NoError]

\* The broker as InitRedisBroker leaves it, with an empty database.
InitBroker ==
    /\ db = [i \in IDs |-> ZeroInstance]
    /\ settings = [EncryptionKey |-> "key-1"]
    /\ logins = {}
    /\ last = NoCall
    /\ prevBind = NoBind
    /\ inflight = [r \in Reqs |-> Idle]
    /\ sweep = NoSweep
    /\ unit = NoUnit

Init ==
    /\ InitBroker
    /\ rdsDB = [i \in RDSIDs |-> NoRow]

\* ---------------------------------------------------------------- helpers
\* Count, when the lookup by uuid never matches a row.
CountNever(id) == 0

\* Count, when the lookup by uuid matches a row whatever the uuid.
CountAlways(id) == 1

\* brokerDB.Where("uuid = ?", id).First(&instance).Count(&count)
Count(id) == IF db[id].Uuid = id THEN 1 ELSE 0

\* c.RedisService.FetchPlan
FetchPlanOk(planID) == planID \in PlanIDs

\* plan.CheckVersion
CheckVersion(planID, version) == version \in ApprovedMajorVersions(planID)

\* RedisOptions.Validate: nil when the options are valid, else the error
\* "<version> is not a supported major version; major version must be one
\* of: 7.0, 6.2, 6.0, 5.0.6".
Validate(options, planID) ==
    IF options.EngineVersion # "" /\ ~CheckVersion(planID, options.EngineVersion)
    THEN [kind |-> "version", version |-> options.EngineVersion,
          listed |-> MessageVersions]
    ELSE NoError

\* json.Unmarshal(request.RawParameters, &options): the only field of
\* RedisOptions is tagged engineVersion; any other key is dropped.
Unmarshal(raw) ==
    IF raw.kind = "malformed"
    THEN [options |-> ZeroOptions,
          err |-> [kind |-> "unmarshal", version |-> "", listed |-> <<>>]]
    ELSE IF raw.key = "engineVersion"
         THEN [options |-> [EngineVersion |-> raw.value], err |-> NoError]
         ELSE [options |-> ZeroOptions, err |-> NoError]

\* parseOptionsFromRequest, when a failed validation hands back zero-valued
\* options with its error.
parseOptionsZeroOnError(raw, planID) ==
    IF raw.kind # "empty"
    THEN LET u == Unmarshal(raw)
             err == IF u.err # NoError THEN u.err ELSE Validate(u.options, planID)
         IN [options |-> IF err # NoError THEN ZeroOptions ELSE u.options,
             err |-> err]
    ELSE [options |-> ZeroOptions, err |-> NoError]

\* parseOptionsFromRequest, when the errors of Unmarshal and Validate are
\* dropped instead of returned.
parseOptionsDroppingErrors(raw, planID) ==
    [options |-> IF raw.kind = "empty" THEN ZeroOptions ELSE Unmarshal(raw).options,
     err |-> NoError]

parseOptionsFromRequest(raw, planID) ==
    IF raw.kind # "empty"
    THEN LET u == Unmarshal(raw) IN
         IF u.err # NoError THEN u
         ELSE [options |-> u.options, err |-> Validate(u.options, planID)]
    ELSE [options |-> ZeroOptions, err |-> NoError]

\* AsyncOperationRequired, when no operation is declared asynchronous.
AsyncOperationRequiredNever(o) == FALSE

AsyncOperationRequired(o) ==
    CASE o = DeleteOp -> FALSE
      [] o = CreateOp -> TRUE
      [] o = ModifyOp -> FALSE
      [] o = BindOp -> FALSE
      [] OTHER -> FALSE

\* helpers.Encrypt / RedisInstance.getPassword: the stored form of a
\* password, and its decryption, which succeeds only under the same key.
Encrypt(pw, key) == [pw |-> pw, key |-> key]
DecryptOk(cipher, key) == cipher.key = key
Decrypt(cipher) == cipher.pw

\* MergeTags, when a tag of the plan is kept over the tag passed in.
MergeTagsPlanWins(planTags, tags) ==
    [k \in DOMAIN planTags \cup DOMAIN tags |->
        IF k \in DOMAIN planTags THEN planTags[k] ELSE tags[k]]

\* RedisInstance.init, the tags: the plan's tags are copied first and the
\* tags passed in are applied second.
MergeTags(planTags, tags) ==
    [k \in DOMAIN planTags \cup DOMAIN tags |->
        IF k \in DOMAIN tags THEN tags[k] ELSE planTags[k]]

\* RedisInstance.init
InitInstance(id, planID, options, pw, key, tags) ==
    [Uuid |-> id, PlanID |-> planID, State |-> InstanceNotCreated,
     EngineVersion |-> options.EngineVersion, Password |-> Encrypt(pw, key),
     Tags |-> MergeTags(PlanTags(planID), tags)]

\* ModifiedInstance, when the modified instance is built from the zero value
\* and keeps nothing of the instance but the new engine version.
ModifiedInstanceFromZero(instance, options) ==
    [ZeroInstance EXCEPT !.EngineVersion = options.EngineVersion]

\* RedisInstance.modify
ModifiedInstance(instance, options) ==
    IF options.EngineVersion # ""
    THEN [instance EXCEPT !.EngineVersion = options.EngineVersion]
    ELSE instance

\* err := existingInstance.modify(options): the instance after the call and
\* the error returned.
modify(instance, options) ==
    [instance |-> ModifiedInstance(instance, options), err |-> NoError]

\* RedisInstance.getCredentials, as the adapter's bind hands it back: the
\* endpoint of the instance is known once it is ready.
Credentials(instance, password) ==
    [host |-> IF instance.State = InstanceReady THEN instance.Uuid ELSE 0,
     password |-> password]

\* BindEffect, when the adapter repeats the provider-side change on every bind.
BindEffectAlways(id) == TRUE

\* adapter.bindRedisToApp: whether this bind makes the one-time provider-side
\* change for the instance (it is made once per provider resource).
BindEffect(id) == id \notin logins

\* The record a handler leaves in last.  Its options are the handler's local
\* options: what parseOptionsFromRequest returned to CreateInstance or
\* ModifyInstance, which call it once the plan is found.
Respond(op, id, planID, raw, resp, calls, status, stored) ==
    [op |-> op, id |-> id, planID |-> planID, raw |-> raw,
     resp |-> resp, state |-> "", calls |-> calls, status |-> status,
     before |-> db[id], credentials |-> NoCredentials,
     effect |-> FALSE, stored |-> stored, err |-> NoError, tags |-> NoTags,
     options |-> IF op \in {"create", "modify"} /\ FetchPlanOk(planID)
                 THEN parseOptionsFromRequest(raw, planID).options
                 ELSE ZeroOptions]

\* What prevBind keeps of the handler that has just been replaced in last.
BindOf(l) ==
    IF l.op = "bind" /\ l.resp = "Bound"
    THEN [id |-> l.id, credentials |-> l.credentials, before |-> l.before,
          after |-> db[l.id]]
    ELSE NoBind

\* A handler that answers without touching the store or the provider.
Reject(op, id, planID, raw, resp, calls, status) ==
    /\ last' = Respond(op, id, planID, raw, resp, calls, status, TRUE)
    /\ prevBind' = BindOf(last)
    /\ UNCHANGED <<db, settings, logins, inflight, rdsDB, sweep, unit>>

\* "Invalid parameters. Error: " + err.Error()
RejectInvalid(op, id, planID, raw, err) ==
    /\ last' = [Respond(op, id, planID, raw, "BadRequest", <<>>, "none", TRUE)
                EXCEPT !.err = err]
    /\ prevBind' = BindOf(last)
    /\ UNCHANGED <<db, settings, logins, inflight, rdsDB, sweep, unit>>

\* --------------------------------------------------------------- handlers
\* Created, without the assignment of the adapter's status.
CreatedKeepsState(newInstance, status) == newInstance

\* newInstance.State = status
Created(newInstance, status) == [newInstance EXCEPT !.State = status]

\* CreateErr, when the error of the insert is not looked at.
CreateErrIgnored(created) == FALSE

\* err = broker.brokerDB.Create(&newInstance).Error; err != nil
CreateErr(created) == ~created

CreateInstance(id, planID, raw) ==
    LET parsed == parseOptionsFromRequest(raw, planID)
        options == parsed.options
    IN
    IF ~FetchPlanOk(planID)
    THEN Reject("create", id, planID, raw, "PlanErr", <<>>, "none")
    ELSE IF parsed.err # NoError
    THEN RejectInvalid("create", id, planID, raw, parsed.err)
    ELSE IF Count(id) # 0
    THEN Reject("create", id, planID, raw, "Conflict", <<>>, "none")
    ELSE IF options.EngineVersion # "" /\ ~CheckVersion(planID, options.EngineVersion)
    THEN Reject("create", id, planID, raw, "BadRequest", <<>>, "none")
    ELSE \E tagsOk \in BOOLEAN :
      IF ~tagsOk
      THEN Reject("create", id, planID, raw, "InternalServerError", <<>>, "none")
      ELSE \E tags \in GeneratedTags, initOk \in BOOLEAN, pw \in Passwords :
        IF ~initOk
        THEN Reject("create", id, planID, raw, "BadRequest", <<>>, "none")
        ELSE \E status \in CreateStatuses :
          LET newInstance ==
                  InitInstance(id, planID, options, pw,
                               settings.EncryptionKey, tags)
          IN
          IF status = InstanceNotCreated
          THEN Reject("create", id, planID, raw, "BadRequest",
                      <<"createRedis">>, status)
          ELSE \E created \in BOOLEAN :
            /\ db' = IF created
                     THEN [db EXCEPT ![id] = Created(newInstance, status)]
                     ELSE db
            /\ last' = [Respond("create", id, planID, raw,
                                IF CreateErr(created)
                                THEN "BadRequest" ELSE "Accepted",
                                <<"createRedis">>, status, created)
                        EXCEPT !.tags = IF created THEN tags ELSE NoTags]
            /\ prevBind' = BindOf(last)
            /\ UNCHANGED <<settings, logins, inflight, rdsDB, sweep, unit>>

\* brokerDB.Where("uuid = ?", id).First(&existingInstance): the row, loaded
\* into the handler's local instance.
First(id) == db[id]

\* brokerDB.Where("uuid = ?", id).First(existingInstance): the instance is
\* passed by value, so whatever the query does, the handler's local instance
\* keeps its zero value.
FirstByValue(id) == ZeroInstance

\* What the query library does when handed a struct by value and a row
\* matches: it fails in reflection while scanning the row, or it completes
\* on its own copy.
ByValueOutcomes == {"panic", "unpopulated"}

\* PlanSwitch, without the comparison of the two plan identifiers.
PlanSwitchNever(newPlanID, existingInstance) == FALSE

\* "Switching plans is not supported."
PlanSwitch(newPlanID, existingInstance) == newPlanID # existingInstance.PlanID

\* brokerDB.Save(instance): the row with the instance's own Uuid is replaced;
\* an instance whose Uuid is the zero value is the row of no identifier.
Save(instance) ==
    IF instance.Uuid \in IDs THEN [db EXCEPT ![instance.Uuid] = instance] ELSE db

ModifyInstance(id, planID, raw) ==
    LET parsed == parseOptionsFromRequest(raw, planID)
        options == parsed.options
    IN
    IF ~FetchPlanOk(planID)
    THEN Reject("modify", id, planID, raw, "PlanErr", <<>>, "none")
    ELSE IF parsed.err # NoError
    THEN RejectInvalid("modify", id, planID, raw, parsed.err)
    ELSE IF Count(id) = 0
    THEN Reject("modify", id, planID, raw, "NotFound", <<>>, "none")
    ELSE \E outcome \in ByValueOutcomes :
      IF outcome = "panic"
      THEN Reject("modify", id, planID, raw, "Panic", <<>>, "none")
      ELSE LET existingInstance == FirstByValue(id) IN
        IF PlanSwitch(planID, existingInstance)
        THEN Reject("modify", id, planID, raw, "BadRequest", <<>>, "none")
        ELSE \E status \in ModifyStatuses :
          LET modified == modify(existingInstance, options).instance IN
          IF status = InstanceNotModified
          THEN Reject("modify", id, planID, raw, "BadRequest",
                      <<"modifyRedis">>, status)
          ELSE \E saved \in BOOLEAN :
            /\ db' = IF saved
                     THEN Save([modified EXCEPT !.State = status,
                                                !.PlanID = planID])
                     ELSE db
            /\ last' = Respond("modify", id, planID, raw,
                               IF saved THEN "Accepted" ELSE "BadRequest",
                               <<"modifyRedis">>, status, saved)
            /\ prevBind' = BindOf(last)
            /\ UNCHANGED <<settings, logins, inflight, rdsDB, sweep, unit>>

\* LastOperationState, when the default case reports success.
LastOperationStateDefaultSucceeded(status) ==
    CASE status = InstanceInProgress -> "in progress"
      [] status = InstanceReady -> "succeeded"
      [] status = InstanceNotCreated -> "failed"
      [] status = InstanceNotGone -> "failed"
      [] OTHER -> "succeeded"

\* The switch of LastOperation over the adapter's status.
LastOperationState(status) ==
    CASE status = InstanceInProgress -> "in progress"
      [] status = InstanceReady -> "succeeded"
      [] status = InstanceNotCreated -> "failed"
      [] status = InstanceNotGone -> "failed"
      [] OTHER -> "in progress"

LastOperation(id, basePlanID) ==
    IF Count(id) = 0
    THEN Reject("lastop", id, basePlanID, EmptyRaw, "NotFound", <<>>, "none")
    ELSE IF ~FetchPlanOk(basePlanID)
    THEN Reject("lastop", id, basePlanID, EmptyRaw, "PlanErr", <<>>, "none")
    ELSE \E status \in InstanceStates :
      /\ last' = [Respond("lastop", id, basePlanID, EmptyRaw, "LastOperation",
                          <<"checkRedisStatus">>, status, TRUE)
                  EXCEPT !.state = LastOperationState(status)]
      /\ prevBind' = BindOf(last)
      /\ UNCHANGED <<db, settings, logins, inflight, rdsDB, sweep, unit>>

\* adapter.bindRedisToApp: the states it can leave the instance in.  Binding
\* an instance that is still in progress may find it ready; nothing else
\* changes the state.
BindStates(instance) ==
    IF instance.State = InstanceInProgress
    THEN {InstanceInProgress, InstanceReady}
    ELSE {instance.State}

\* GetPasswordErr, when the error of getPassword is not looked at.
GetPasswordErrIgnored(instance, key) == FALSE

\* password, err := existingInstance.getPassword(key); err != nil
GetPasswordErr(instance, key) == ~DecryptOk(instance.Password, key)

\* BindWrites, when the instance is never saved after a bind.
BindWritesNever(instance, originalInstanceState) == FALSE

\* existingInstance.State != originalInstanceState
BindWrites(instance, originalInstanceState) ==
    instance.State # originalInstanceState

BindInstance(id, basePlanID) ==
    LET existingInstance == First(id)
        key == settings.EncryptionKey
    IN
    IF Count(id) = 0
    THEN Reject("bind", id, basePlanID, EmptyRaw, "NotFound", <<>>, "none")
    ELSE IF ~FetchPlanOk(basePlanID)
    THEN Reject("bind", id, basePlanID, EmptyRaw, "PlanErr", <<>>, "none")
    ELSE IF GetPasswordErr(existingInstance, key)
    THEN Reject("bind", id, basePlanID, EmptyRaw, "InternalServerError", <<>>, "none")
    ELSE \E bindOk \in BOOLEAN :
      IF ~bindOk
      THEN Reject("bind", id, basePlanID, EmptyRaw, "BadRequest",
                  <<"bindRedisToApp">>, "none")
      ELSE \E state \in BindStates(existingInstance), saved \in BOOLEAN :
        LET password == Decrypt(existingInstance.Password)
            originalInstanceState == existingInstance.State
            bound == [existingInstance EXCEPT !.State = state]
            written == BindWrites(bound, originalInstanceState)
        IN
        /\ db' = IF written /\ saved THEN Save(bound) ELSE db
        /\ logins' = logins \cup {id}
        /\ last' = [Respond("bind", id, basePlanID, EmptyRaw, "Bound",
                            <<"bindRedisToApp">>, state, written => saved)
                    EXCEPT !.credentials = Credentials(bound, password),
                           !.effect = BindEffect(id)]
        /\ prevBind' = BindOf(last)
        /\ UNCHANGED <<settings, inflight, rdsDB, sweep, unit>>

\* DeleteFailed, when every status but InstanceGone counts as a failure.
DeleteFailedUnlessGone(status) == status # InstanceGone

\* DeleteFailed, when no status of the adapter counts as a failure.
DeleteFailedNever(status) == FALSE

\* status == base.InstanceNotGone
DeleteFailed(status) == status = InstanceNotGone

DeleteInstance(id, basePlanID) ==
    LET existingInstance == First(id) IN
    IF Count(id) = 0
    THEN Reject("delete", id, basePlanID, EmptyRaw, "NotFound", <<>>, "none")
    ELSE IF ~FetchPlanOk(basePlanID)
    THEN Reject("delete", id, basePlanID, EmptyRaw, "PlanErr", <<>>, "none")
    ELSE \E status \in DeleteStatuses :
      IF DeleteFailed(status)
      THEN Reject("delete", id, basePlanID, EmptyRaw, "BadRequest",
                  <<"deleteRedis">>, status)
      ELSE \E deleted \in BOOLEAN :
        /\ db' = IF deleted
                 THEN [db EXCEPT ![existingInstance.Uuid] = ZeroInstance]
                 ELSE db
        /\ logins' = logins \ {id}
        /\ last' = Respond("delete", id, basePlanID, EmptyRaw, "Deleted",
                           <<"deleteRedis">>, status, deleted)
        /\ prevBind' = BindOf(last)
        /\ UNCHANGED <<settings, inflight, rdsDB, sweep, unit>>

\* The broker process is started again with another settings.EncryptionKey;
\* the broker database outlives the process.
Restart(key) ==
    /\ key # settings.EncryptionKey
    /\ settings' = [settings EXCEPT !.EncryptionKey = key]
    /\ last' = [NoCall EXCEPT !.op = "restart"]
    /\ prevBind' = BindOf(last)
    /\ UNCHANGED <<db, logins, inflight, rdsDB, sweep, unit>>

Requests == PlanIDs \cup {UnknownPlanID}

Next ==
    \/ \E id \in IDs, planID \in Requests, raw \in RawParameters :
          CreateInstance(id, planID, raw)
    \/ \E id \in IDs, planID \in Requests, raw \in RawParameters :
          ModifyInstance(id, planID, raw)
    \/ \E id \in IDs, planID \in Requests : LastOperation(id, planID)
    \/ \E id \in IDs, planID \in Requests : BindInstance(id, planID)
    \/ \E id \in IDs, planID \in Requests : DeleteInstance(id, planID)
    \/ \E key \in Keys : Restart(key)

Spec == Init /\ [][Next]_vars

\* ---------------------------------------------------- concurrent requests
\* The requests on the identifier that have passed their lookup of the row
\* and have not answered yet.
InFlight(id) ==
    {q \in Reqs : inflight[q].id = id /\ inflight[q].pc \in {"checked", "called"}}

\* brokerDB.Create: the uuid is the key of the table, so the insert fails
\* when a row with the uuid is there.
DuplicateKey(id) == Count(id) # 0

\* CreateInstance up to the adapter call: plan lookup, options, lookup of
\* the row, tags and init.
CreateBegin(r, id, planID, raw) ==
    LET parsed == parseOptionsFromRequest(raw, planID)
        options == parsed.options
        begun == [Idle EXCEPT !.op = "create", !.id = id, !.planID = planID,
                              !.during = InFlight(id)]
        answer(resp) == [inflight EXCEPT ![r] = [begun EXCEPT !.pc = "done",
                                                              !.resp = resp]]
    IN
    /\ inflight[r].pc = "idle"
    /\ UNCHANGED <<db, settings, logins, last, prevBind, rdsDB, sweep, unit>>
    /\ IF ~FetchPlanOk(planID)
       THEN inflight' = answer("PlanErr")
       ELSE IF parsed.err # NoError
       THEN inflight' = answer("BadRequest")
       ELSE IF Count(id) # 0
       THEN inflight' = answer("Conflict")
       ELSE \E tagsOk \in BOOLEAN :
         IF ~tagsOk
         THEN inflight' = answer("InternalServerError")
         ELSE \E tags \in GeneratedTags, initOk \in BOOLEAN, pw \in Passwords :
           IF ~initOk
           THEN inflight' = answer("BadRequest")
           ELSE inflight' =
                  [inflight EXCEPT ![r] =
                      [begun EXCEPT !.pc = "checked",
                                    !.instance =
                                        InitInstance(id, planID, options, pw,
                                                     settings.EncryptionKey, tags)]]

\* adapter.createRedis(&newInstance, newInstance.ClearPassword)
CreateAdapter(r) ==
    /\ inflight[r].op = "create"
    /\ inflight[r].pc = "checked"
    /\ UNCHANGED <<db, settings, logins, last, prevBind, rdsDB, sweep, unit>>
    /\ \E status \in CreateStatuses :
         inflight' =
            [inflight EXCEPT ![r].called = TRUE,
                             ![r].status = status,
                             ![r].pc = IF status = InstanceNotCreated
                                       THEN "done" ELSE "called",
                             ![r].resp = IF status = InstanceNotCreated
                                         THEN "BadRequest" ELSE "none"]

\* newInstance.State = status; brokerDB.Create(&newInstance)
CreateStore(r) ==
    LET id == inflight[r].id
        newInstance == Created(inflight[r].instance, inflight[r].status)
    IN
    /\ inflight[r].op = "create"
    /\ inflight[r].pc = "called"
    /\ UNCHANGED <<settings, logins, last, prevBind, rdsDB, sweep, unit>>
    /\ \E created \in BOOLEAN :
         LET inserted == created /\ ~DuplicateKey(id) IN
         /\ db' = IF inserted THEN [db EXCEPT ![id] = newInstance] ELSE db
         /\ inflight' = [inflight EXCEPT ![r].pc = "done",
                                         ![r].resp = IF CreateErr(inserted)
                                                     THEN "BadRequest"
                                                     ELSE "Accepted"]

NextConc ==
    \/ \E r \in Reqs, id \in IDs, planID \in Requests, raw \in RawParameters :
          CreateBegin(r, id, planID, raw)
    \/ \E r \in Reqs : CreateAdapter(r)
    \/ \E r \in Reqs : CreateStore(r)

SpecConc == Init /\ [][NextConc]_vars

\* ------------------------------------------- bind and delete, interleaved
\* A slot whose handler has returned resp.
Returned(r, op, id, planID, resp) ==
    [inflight EXCEPT ![r] = [Idle EXCEPT !.pc = "done", !.op = op, !.id = id,
                                         !.planID = planID, !.resp = resp]]

\* BindInstance up to the adapter call: lookup of the row, plan lookup and
\* getPassword.
BindBegin(r, id, basePlanID) ==
    LET existingInstance == First(id) IN
    /\ inflight[r].pc = "idle"
    /\ UNCHANGED <<db, settings, logins, last, prevBind, rdsDB, sweep, unit>>
    /\ inflight' =
         IF Count(id) = 0
         THEN Returned(r, "bind", id, basePlanID, "NotFound")
         ELSE IF ~FetchPlanOk(basePlanID)
         THEN Returned(r, "bind", id, basePlanID, "PlanErr")
         ELSE IF GetPasswordErr(existingInstance, settings.EncryptionKey)
         THEN Returned(r, "bind", id, basePlanID, "InternalServerError")
         ELSE [inflight EXCEPT ![r] =
                  [Idle EXCEPT !.pc = "loaded", !.op = "bind", !.id = id,
                               !.planID = basePlanID,
                               !.instance = existingInstance]]

\* originalInstanceState := existingInstance.State;
\* adapter.bindRedisToApp(&existingInstance, password)
BindAdapter(r) ==
    LET id == inflight[r].id IN
    /\ inflight[r].op = "bind"
    /\ inflight[r].pc = "loaded"
    /\ UNCHANGED <<db, settings, last, prevBind, rdsDB, sweep, unit>>
    /\ \E bindOk \in BOOLEAN :
         IF ~bindOk
         THEN /\ inflight' = Returned(r, "bind", id, inflight[r].planID,
                                      "BadRequest")
              /\ UNCHANGED logins
         ELSE \E state \in BindStates(inflight[r].instance) :
              /\ inflight' = [inflight EXCEPT ![r].pc = "called",
                                              ![r].called = TRUE,
                                              ![r].status = state]
              /\ logins' = logins \cup {id}

\* if existingInstance.State != originalInstanceState
\*     { broker.brokerDB.Save(&existingInstance) }
BindStore(r) ==
    LET originalInstanceState == inflight[r].instance.State
        bound == [inflight[r].instance EXCEPT !.State = inflight[r].status]
    IN
    /\ inflight[r].op = "bind"
    /\ inflight[r].pc = "called"
    /\ UNCHANGED <<settings, logins, last, prevBind, rdsDB, sweep, unit>>
    /\ \E saved \in BOOLEAN :
         db' = IF BindWrites(bound, originalInstanceState) /\ saved
               THEN Save(bound) ELSE db
    /\ inflight' = Returned(r, "bind", inflight[r].id, inflight[r].planID, "Bound")

\* DeleteInstance up to the adapter call: lookup of the row and plan lookup.
DeleteBegin(r, id, basePlanID) ==
    /\ inflight[r].pc = "idle"
    /\ UNCHANGED <<db, settings, logins, last, prevBind, rdsDB, sweep, unit>>
    /\ inflight' =
         IF Count(id) = 0
         THEN Returned(r, "delete", id, basePlanID, "NotFound")
         ELSE IF ~FetchPlanOk(basePlanID)
         THEN Returned(r, "delete", id, basePlanID, "PlanErr")
         ELSE [inflight EXCEPT ![r] =
                  [Idle EXCEPT !.pc = "loaded", !.op = "delete", !.id = id,
                               !.planID = basePlanID, !.instance = First(id)]]

\* adapter.deleteRedis(&existingInstance)
DeleteAdapter(r) ==
    /\ inflight[r].op = "delete"
    /\ inflight[r].pc = "loaded"
    /\ UNCHANGED <<db, settings, logins, last, prevBind, rdsDB, sweep, unit>>
    /\ \E status \in DeleteStatuses :
         inflight' =
            IF DeleteFailed(status)
            THEN Returned(r, "delete", inflight[r].id, inflight[r].planID,
                          "BadRequest")
            ELSE [inflight EXCEPT ![r].pc = "called", ![r].called = TRUE,
                                  ![r].status = status]

\* broker.brokerDB.Unscoped().Delete(&existingInstance)
DeleteStore(r) ==
    LET existingInstance == inflight[r].instance IN
    /\ inflight[r].op = "delete"
    /\ inflight[r].pc = "called"
    /\ UNCHANGED <<settings, last, prevBind, rdsDB, sweep, unit>>
    /\ \E deleted \in BOOLEAN :
         db' = IF deleted
               THEN [db EXCEPT ![existingInstance.Uuid] = ZeroInstance]
               ELSE db
    /\ logins' = logins \ {inflight[r].id}
    /\ inflight' = Returned(r, "delete", inflight[r].id, inflight[r].planID,
                            "Deleted")

\* ModifyInstance, which returns at its lookup of the row or before it.
ModifyBegin(r, id, planID, raw) ==
    /\ inflight[r].pc = "idle"
    /\ UNCHANGED <<db, settings, logins, last, prevBind, rdsDB, sweep, unit>>
    /\ IF ~FetchPlanOk(planID)
       THEN inflight' = Returned(r, "modify", id, planID, "PlanErr")
       ELSE IF parseOptionsFromRequest(raw, planID).err # NoError
       THEN inflight' = Returned(r, "modify", id, planID, "BadRequest")
       ELSE IF Count(id) = 0
       THEN inflight' = Returned(r, "modify", id, planID, "NotFound")
       ELSE \E outcome \in ByValueOutcomes :
         IF outcome = "panic"
         THEN inflight' = Returned(r, "modify", id, planID, "Panic")
         ELSE IF PlanSwitch(planID, FirstByValue(id))
         THEN inflight' = Returned(r, "modify", id, planID, "BadRequest")
         ELSE inflight' = [inflight EXCEPT ![r] =
                  [Idle EXCEPT !.pc = "loaded", !.op = "modify", !.id = id,
                               !.planID = planID,
                               !.instance = FirstByValue(id)]]

\* The handler in the slot has returned and its goroutine ends.
Return(r) ==
    /\ inflight[r].pc = "done"
    /\ inflight' = [inflight EXCEPT ![r] = Idle]
    /\ UNCHANGED <<db, settings, logins, last, prevBind, rdsDB, sweep, unit>>

\* The requests of the interleaving: creates without parameters, and binds,
\* deletes and modifies under the plans of the catalog.
NextRace ==
    \/ \E r \in Reqs, id \in IDs, planID \in PlanIDs :
          CreateBegin(r, id, planID, EmptyRaw)
    \/ \E r \in Reqs : CreateAdapter(r)
    \/ \E r \in Reqs : CreateStore(r)
    \/ \E r \in Reqs, id \in IDs, planID \in PlanIDs : BindBegin(r, id, planID)
    \/ \E r \in Reqs : BindAdapter(r)
    \/ \E r \in Reqs : BindStore(r)
    \/ \E r \in Reqs, id \in IDs, planID \in PlanIDs : DeleteBegin(r, id, planID)
    \/ \E r \in Reqs : DeleteAdapter(r)
    \/ \E r \in Reqs : DeleteStore(r)
    \/ \E r \in Reqs, id \in IDs, planID \in PlanIDs :
          ModifyBegin(r, id, planID, EmptyRaw)
    \/ \E r \in Reqs : Return(r)

SpecRace == Init /\ [][NextRace]_vars

\* ---------------------------------------------------- reconciliation job
\* The tables of rds.RDSInstance rows the job can find: a stored row carries
\* its own Uuid.
RDSTables ==
    {t \in [RDSIDs -> [Uuid : RDSIDs \cup {0}, State : InstanceStates]] :
        \A i \in RDSIDs : t[i] = NoRow \/ t[i].Uuid = i}

InitSweep ==
    /\ InitBroker
    /\ rdsDB \in RDSTables

\* The rows the cursor has still to hand out, in the order of their Uuid.
Remaining == {i \in RDSIDs : i > sweep.cursor /\ rdsDB[i] # NoRow}

\* ReconcileRow, when the record the loop has read is deleted from the
\* broker database.
ReconcileRowDeletes(table, rdsInstance) ==
    [table EXCEPT ![rdsInstance.Uuid] = NoRow]

\* The body of the loop after ScanRows: comments only.
ReconcileRow(table, rdsInstance) == table

\* rows, err := db.Model(&rds.RDSInstance{}).Rows()
ReconcileRows ==
    /\ sweep.pc \in {"idle", "done"}
    /\ \E ok \in BOOLEAN :
         sweep' = IF ok
                  THEN [NoSweep EXCEPT !.pc = "rows"]
                  ELSE [NoSweep EXCEPT !.pc = "done", !.err = TRUE]
    /\ UNCHANGED <<db, settings, logins, last, prevBind, inflight, rdsDB, unit>>

\* rows.Next() is true: db.ScanRows(rows, &rdsInstance) and the loop body.
ReconcileNext ==
    /\ sweep.pc = "rows"
    /\ Remaining # {}
    /\ LET i == CHOOSE x \in Remaining : \A y \in Remaining : x <= y
           rdsInstance == rdsDB[i]
       IN
       /\ rdsDB' = ReconcileRow(rdsDB, rdsInstance)
       /\ sweep' = [sweep EXCEPT !.cursor = i,
                                 !.scanned = @ \cup {rdsInstance}]
    /\ UNCHANGED <<db, settings, logins, last, prevBind, inflight, unit>>

\* rows.Next() is false: return errs
ReconcileReturn ==
    /\ sweep.pc = "rows"
    /\ Remaining = {}
    /\ sweep' = [sweep EXCEPT !.pc = "done"]
    /\ UNCHANGED <<db, settings, logins, last, prevBind, inflight, rdsDB, unit>>

ReconcileMissingResourcesForAllRDSDatabases ==
    \/ ReconcileRows
    \/ ReconcileNext
    \/ ReconcileReturn

\* ------------------------------------------------ RedisInstance.modify
\* The engine versions an instance can carry: those a request can name, none,
\* and the one of TestModifyInstance's existing instance.
StoredVersions == Versions \cup {"", "6.0"}

\* The instances modify is called on.
Instances ==
    [Uuid : IDs, PlanID : PlanIDs, State : InstanceStates,
     EngineVersion : StoredVersions,
     Password : {Encrypt(pw, key) : pw \in Passwords, key \in Keys},
     Tags : {PlanTags(planID) : planID \in PlanIDs}]
    \cup {[ZeroInstance EXCEPT !.EngineVersion = v] : v \in StoredVersions}

\* err := test.existingInstance.modify(test.options)
CallModify(existingInstance, options) ==
    /\ ~unit.called
    /\ unit' = [called |-> TRUE, existingInstance |-> existingInstance,
                options |-> options,
                instance |-> modify(existingInstance, options).instance,
                err |-> modify(existingInstance, options).err]
    /\ UNCHANGED <<db, settings, logins, last, prevBind, inflight, rdsDB, sweep>>

NextModify ==
    \E existingInstance \in Instances, v \in Versions \cup {""} :
        CallModify(existingInstance, [EngineVersion |-> v])

SpecModify == Init /\ [][NextModify]_vars

SpecSweep == InitSweep /\ [][ReconcileMissingResourcesForAllRDSDatabases]_vars

\* ----------------------------------------------------------------- claims
\* A row of the broker database, as opposed to the zero value.
HasRecord(instance) == instance.Uuid # 0

\* The raw parameters do not validate against the plan: they do not parse,
\* or they name an engine version the plan does not approve.
OptionsFail(raw, planID) ==
    \/ raw.kind = "malformed"
    \/ /\ raw.kind = "object"
       /\ raw.key = "engineVersion"
       /\ raw.value # ""
       /\ raw.value \notin ApprovedMajorVersions(planID)

\* The last handler got as far as the adapter call `call`.
Called(call) == last.calls = <<call>>

\* C1 (as stated): a CreateInstance for an identifier that already has a
\* Record, whatever its plan or options, fails with Conflict, makes no adapter
\* call and leaves the Record unchanged.
C1_DuplicateCreateAlwaysConflict ==
    (last.op = "create" /\ HasRecord(last.before)) =>
        /\ last.resp = "Conflict"
        /\ last.calls = <<>>
        /\ db[last.id] = last.before

\* C1 (amended): a CreateInstance for an identifier that already has a Record
\* always fails, makes no adapter call and leaves the Record unchanged; it
\* fails with Conflict when the plan exists and the options validate, with the
\* plan lookup's error when the plan is unknown, and with BadRequest when the
\* options fail validation, since both are checked before the duplicate check.
C1_NoDuplicateCreate ==
    (last.op = "create" /\ HasRecord(last.before)) =>
        /\ last.calls = <<>>
        /\ db[last.id] = last.before
        /\ last.resp = IF ~FetchPlanOk(last.planID) THEN "PlanErr"
                       ELSE IF OptionsFail(last.raw, last.planID) THEN "BadRequest"
                       ELSE "Conflict"

C1_Witness ==
    /\ last.op = "create"
    /\ HasRecord(last.before)
    /\ last.resp = "Conflict"
    /\ db[last.id] = last.before

\* C2: a ModifyInstance or DeleteInstance on a Record whose status is in
\* progress is rejected with Conflict, makes no adapter call and leaves the
\* Record with its in-flight status.
C2_SingleInFlightOperation ==
    (/\ last.op \in {"modify", "delete"}
     /\ HasRecord(last.before)
     /\ last.before.State = InstanceInProgress) =>
        /\ last.resp = "Conflict"
        /\ last.calls = <<>>
        /\ HasRecord(db[last.id])
        /\ db[last.id].State = last.before.State

\* C3: a ModifyInstance whose plan differs from the plan stored on the
\* existing Record is rejected before any adapter modify call, and the stored
\* Record (plan identifier, status, engine version) is unchanged.
C3_PlanImmutability ==
    (/\ last.op = "modify"
     /\ HasRecord(last.before)
     /\ last.planID # last.before.PlanID) =>
        /\ last.resp \notin {"Accepted", "none"}
        /\ last.calls = <<>>
        /\ db[last.id] = last.before

C3_Witness ==
    /\ last.op = "modify"
    /\ HasRecord(last.before)
    /\ FetchPlanOk(last.planID)
    /\ ~OptionsFail(last.raw, last.planID)
    /\ last.planID # last.before.PlanID
    /\ last.resp = "BadRequest"
    /\ db[last.id] = last.before

\* C4: a CreateInstance or ModifyInstance whose options fail validation
\* against the plan returns a client error, with no adapter call made and the
\* record store unchanged.
C4_ValidationBeforeSideEffects ==
    (/\ last.op \in {"create", "modify"}
     /\ FetchPlanOk(last.planID)
     /\ OptionsFail(last.raw, last.planID)) =>
        /\ last.resp = "BadRequest"
        /\ last.calls = <<>>
        /\ db[last.id] = last.before

C4_Witness ==
    /\ last.op \in {"create", "modify"}
    /\ last.raw.kind = "object"
    /\ OptionsFail(last.raw, last.planID)
    /\ FetchPlanOk(last.planID)
    /\ last.resp = "BadRequest"

\* C5 (as stated): a CreateInstance for an identifier with no Record, with
\* valid options, whose adapter create call does not report failure, persists
\* a new Record with the status the adapter returned and returns accepted.
C5_CreateAlwaysPersists ==
    (/\ last.op = "create"
     /\ ~HasRecord(last.before)
     /\ Called("createRedis")
     /\ last.status # InstanceNotCreated) =>
        /\ db[last.id].Uuid = last.id
        /\ db[last.id].State = last.status
        /\ last.resp = "Accepted"

\* C5 (amended): such a CreateInstance persists one new Record with the
\* status the adapter returned and returns accepted when the store accepts the
\* insert; when the insert fails it returns BadRequest and the identifier
\* still has no Record.
C5_CreateSuccess ==
    (/\ last.op = "create"
     /\ ~HasRecord(last.before)
     /\ Called("createRedis")
     /\ last.status # InstanceNotCreated) =>
        IF last.stored
        THEN /\ db[last.id].Uuid = last.id
             /\ db[last.id].PlanID = last.planID
             /\ db[last.id].State = last.status
             /\ last.resp = "Accepted"
        ELSE /\ ~HasRecord(db[last.id])
             /\ last.resp = "BadRequest"

C5_Witness ==
    /\ last.op = "create"
    /\ ~HasRecord(last.before)
    /\ Called("createRedis")
    /\ last.status = InstanceInProgress
    /\ last.stored
    /\ db[last.id].State = InstanceInProgress
    /\ last.resp = "Accepted"

C7_ProviderFailuresRecorded ==
    (\/ last.op = "create" /\ Called("createRedis") /\ last.status = InstanceNotCreated
     \/ last.op = "modify" /\ Called("modifyRedis") /\ last.status = InstanceNotModified
     \/ last.op = "delete" /\ Called("deleteRedis") /\ last.status = InstanceNotGone) =>
        /\ HasRecord(db[last.id])
        /\ db[last.id].State = last.status

\* C8: LastOperation answers succeeded exactly when checkRedisStatus returns
\* ready, failed exactly when it returns not-created or not-gone, and in
\* progress for every other result; a resource that is gone, polled while the
\* Record is in progress, is not reported as succeeded.
C8_StatusMapping ==
    (last.op = "lastop" /\ Called("checkRedisStatus")) =>
        /\ last.resp = "LastOperation"
        /\ last.state \in {"in progress", "succeeded", "failed"}
        /\ last.state = "succeeded" <=> last.status = InstanceReady
        /\ last.state = "failed" <=>
              last.status \in {InstanceNotCreated, InstanceNotGone}

C8_Witness ==
    /\ last.op = "lastop"
    /\ Called("checkRedisStatus")
    /\ last.before.State = InstanceInProgress
    /\ last.status = InstanceGone
    /\ last.state = "in progress"

\* C9: a LastOperation poll leaves the Record alone when the status returned
\* by checkRedisStatus equals the stored one, and otherwise the returned
\* status is the Record's persisted status after the poll.
C9_CheckStatusPersistence ==
    (last.op = "lastop" /\ Called("checkRedisStatus")) =>
        IF last.status = last.before.State
        THEN db[last.id] = last.before
        ELSE db[last.id].State = last.status

\* C10: two successive successful BindInstance calls on a ready instance
\* return the same credentials; the second makes no further provider-side
\* change and leaves the Record as the first bind left it.
C10_IdempotentBind ==
    (/\ last.op = "bind"
     /\ last.resp = "Bound"
     /\ prevBind.id = last.id
     /\ prevBind.before.State = InstanceReady) =>
        /\ last.credentials = prevBind.credentials
        /\ ~last.effect
        /\ db[last.id] = prevBind.after

C10_Witness ==
    /\ last.op = "bind"
    /\ last.resp = "Bound"
    /\ prevBind.id = last.id
    /\ prevBind.before.State = InstanceReady
    /\ last.credentials = prevBind.credentials
    /\ last.credentials.password \in Passwords
    /\ last.credentials.host = last.id

\* The versions an error message lists.
Listed(err) == {err.listed[i] : i \in DOMAIN err.listed}

\* C11: validating options whose engine version the plan does not approve
\* fails with an error that names the rejected version and lists that plan's
\* approved versions; an empty engine version always validates.
C11_VersionValidationMessage ==
    (/\ last.op \in {"create", "modify"}
     /\ FetchPlanOk(last.planID)
     /\ last.raw.kind = "object"
     /\ last.raw.key = "engineVersion") =>
        IF last.raw.value = "" \/ last.raw.value \in ApprovedMajorVersions(last.planID)
        THEN last.err = NoError
        ELSE /\ last.err.kind = "version"
             /\ last.err.version = last.raw.value
             /\ Listed(last.err) = ApprovedMajorVersions(last.planID)

\* C12: the tag set of a newly initialised Record is the union of the plan's
\* tags and the tags passed with the request, and on every key present in
\* both the request's value is the one kept.
C12_TagPrecedence ==
    (last.op = "create" /\ last.resp = "Accepted") =>
        LET recordTags == db[last.id].Tags
            planTags == PlanTags(last.planID)
        IN
        /\ DOMAIN recordTags = DOMAIN planTags \cup DOMAIN last.tags
        /\ \A k \in DOMAIN last.tags : recordTags[k] = last.tags[k]
        /\ \A k \in DOMAIN planTags \ DOMAIN last.tags :
              recordTags[k] = planTags[k]

C12_Witness ==
    /\ last.op = "create"
    /\ last.resp = "Accepted"
    /\ last.planID = "plan-2"
    /\ last.tags = [a |-> "2", b |-> "3"]
    /\ db[last.id].Tags = [a |-> "2", b |-> "3", c |-> "4"]

\* C13 (as stated): ModifyInstance, BindInstance, LastOperation and
\* DeleteInstance on an identifier that has no Record each return NotFound,
\* make no adapter call and leave the record store unchanged.
C13_UnknownIdentifierAlwaysNotFound ==
    (/\ last.op \in {"modify", "bind", "lastop", "delete"}
     /\ ~HasRecord(last.before)) =>
        /\ last.resp = "NotFound"
        /\ last.calls = <<>>
        /\ db[last.id] = last.before

\* C13 (amended): on an identifier that has no Record the four handlers make
\* no adapter call and leave the record store unchanged, never creating a
\* Record.  BindInstance, LastOperation and DeleteInstance return NotFound;
\* ModifyInstance returns NotFound when its plan exists and its options
\* validate, the plan lookup's error when the plan is unknown and BadRequest
\* when the options fail validation, both being checked before the lookup.
C13_UnknownIdentifier ==
    (/\ last.op \in {"modify", "bind", "lastop", "delete"}
     /\ ~HasRecord(last.before)) =>
        /\ last.calls = <<>>
        /\ db[last.id] = last.before
        /\ last.resp =
              IF last.op = "modify" /\ ~FetchPlanOk(last.planID) THEN "PlanErr"
              ELSE IF last.op = "modify" /\ OptionsFail(last.raw, last.planID)
                   THEN "BadRequest"
              ELSE "NotFound"

C13_Witness ==
    /\ last.op = "modify"
    /\ ~HasRecord(last.before)
    /\ last.raw.kind = "object"
    /\ last.resp = "NotFound"
    /\ ~HasRecord(db[last.id])

\* C14: of two CreateInstance requests with the same identifier that run
\* concurrently (one began while the other had passed its lookup of the row
\* and had not answered yet), at most one issues the adapter create call, and
\* when one of them is accepted the other, having passed validation and
\* init, fails with Conflict.  (The store is keyed by identifier, so at most one
\* Record results.)
C14_ConcurrentCreatesDoNotInterleave ==
    \A r1, r2 \in Reqs :
        (/\ r1 # r2
         /\ inflight[r1].op = "create"
         /\ inflight[r2].op = "create"
         /\ r1 \in inflight[r2].during) =>
            /\ ~(inflight[r1].called /\ inflight[r2].called)
            /\ (inflight[r1].resp = "Accepted" /\ inflight[r2].pc = "done"
                    /\ HasRecord(inflight[r2].instance)) =>
                        inflight[r2].resp = "Conflict"
            /\ (inflight[r2].resp = "Accepted" /\ inflight[r1].pc = "done") =>
                        inflight[r1].resp = "Conflict"

C17_BindFrame ==
    (last.op = "bind" /\ HasRecord(last.before)) =>
        /\ db[last.id].Password = last.before.Password
        /\ db[last.id].PlanID = last.before.PlanID
        /\ IF last.resp = "Bound" /\ last.status # last.before.State
           THEN db[last.id] = IF last.stored
                              THEN [last.before EXCEPT !.State = last.status]
                              ELSE last.before
           ELSE db[last.id] = last.before /\ last.stored

C17_Witness ==
    /\ last.op = "bind"
    /\ last.resp = "Bound"
    /\ last.before.State = InstanceInProgress
    /\ last.status = InstanceReady
    /\ db[last.id] = [last.before EXCEPT !.State = InstanceReady]
    /\ db[last.id].Password = last.before.Password

\* C18: when the adapter's create call succeeded but storing the Record
\* fails, CreateInstance returns an error response, never accepted, issues no
\* further adapter call (no compensating delete), and no Record exists for
\* the identifier; likewise ModifyInstance, whose stored Record stays at its
\* pre-request value.
C18_PersistenceFailureAfterProviderSuccess ==
    (/\ last.op \in {"create", "modify"}
     /\ last.calls # <<>>
     /\ last.status \notin {InstanceNotCreated, InstanceNotModified}
     /\ ~last.stored) =>
        /\ last.resp = "BadRequest"
        /\ last.calls = IF last.op = "create"
                        THEN <<"createRedis">> ELSE <<"modifyRedis">>
        /\ db[last.id] = last.before
        /\ (last.op = "create") => ~HasRecord(db[last.id])

C18_Witness ==
    /\ last.op = "create"
    /\ Called("createRedis")
    /\ last.status = InstanceReady
    /\ ~last.stored
    /\ last.resp = "BadRequest"
    /\ ~HasRecord(db[last.id])

Undecryptable ==
    /\ HasRecord(last.before)
    /\ ~DecryptOk(last.before.Password, settings.EncryptionKey)

\* C20 (as stated): when the stored password cannot be decrypted with the
\* process-wide key, BindInstance returns a server error, makes no adapter
\* bind call and leaves the Record unchanged.
C20_BindDecryptionFailureAlwaysServerError ==
    (last.op = "bind" /\ Undecryptable) =>
        /\ last.resp = "InternalServerError"
        /\ last.calls = <<>>
        /\ db[last.id] = last.before

\* C20 (amended): when the stored password cannot be decrypted with the
\* process-wide key, BindInstance makes no adapter bind call and leaves the
\* Record unchanged; it returns a server error when the instance's plan
\* exists in the catalog and the plan lookup's error when it does not, the
\* plan being looked up before the password is decrypted.
C20_BindDecryptionFailure ==
    (last.op = "bind" /\ Undecryptable) =>
        /\ last.calls = <<>>
        /\ db[last.id] = last.before
        /\ last.resp = IF FetchPlanOk(last.planID)
                       THEN "InternalServerError" ELSE "PlanErr"

C20_Witness ==
    /\ last.op = "bind"
    /\ Undecryptable
    /\ last.before.State = InstanceReady
    /\ last.resp = "InternalServerError"
    /\ last.calls = <<>>
    /\ db[last.id] = last.before

\* C21: parseOptionsFromRequest returns zero-valued options and no error when
\* the raw parameters are empty or contain only unrecognised keys, raises no
\* validation error for an absent (empty) engine version, and when validation
\* fails returns the error together with the options as parsed, the engine
\* version populated, not zero-valued options.
C21_OptionParsing ==
    (last.op \in {"create", "modify"} /\ FetchPlanOk(last.planID)) =>
        /\ (\/ last.raw.kind = "empty"
            \/ last.raw.kind = "object" /\ last.raw.key # "engineVersion") =>
               last.options = ZeroOptions /\ last.err = NoError
        /\ (last.raw.kind = "object" /\ last.raw.key = "engineVersion"
                /\ last.raw.value = "") =>
               last.options = ZeroOptions /\ last.err = NoError
        /\ (last.err.kind = "version") =>
               /\ last.raw.kind = "object"
               /\ last.options = [EngineVersion |-> last.raw.value]
               /\ last.options # ZeroOptions

C21_Witness ==
    /\ last.op = "create"
    /\ last.raw = [kind |-> "object", key |-> "engineVersion", value |-> "6.2"]
    /\ last.planID = "plan-1"
    /\ last.err.kind = "version"
    /\ last.options = [EngineVersion |-> "6.2"]

OperationOf(op) ==
    CASE op = "create" -> CreateOp
      [] op = "modify" -> ModifyOp
      [] op = "bind" -> BindOp
      [] op = "delete" -> DeleteOp

C24_NoResurrectionAfterDelete ==
    [][\A id \in IDs :
          (~HasRecord(db[id]) /\ HasRecord(db'[id])) =>
              \E r \in Reqs :
                  /\ inflight[r].op = "create"
                  /\ inflight[r].id = id
                  /\ inflight[r].pc = "called"
                  /\ inflight'[r].resp = "Accepted"]_vars
====
